---- MODULE Spec2Model ----
(***************************************************************************)
(* Model of the model cache manager of malaya/function/__init__.py:        *)
(* download_file, check_available and check_file, over a small file system *)
(* (paths are character sequences, files carry the chunks written to      *)
(* them, the version marker carries its text).                             *)
(***************************************************************************)
EXTENDS Integers, Sequences, FiniteSets, TLC

\* Number of chunks r.iter_content yields for one remote body.
BodyChunks == 2

Procs == {1, 2}

----------------------------------------------------------------------------
\* Strings of the program, as sequences of one-character strings.

PM == <<"a", "/", "m">>
PV == <<"a", "/", "v">>
PO == <<"b", "/", "v">>
DA == <<"a">>
DB == <<"b">>
V1 == <<"1">>
V12 == <<"1", "2">>
KModel == <<"m", "o", "d", "e", "l">>
KVocab == <<"v", "o", "c", "a", "b">>
KVersion == <<"v", "e", "r", "s", "i", "o", "n">>
KModelVersion == <<"m", "o", "d", "e", "l", "_">> \o KVersion
VersionSuffix == <<"/">> \o KVersion
MK == DA \o VersionSuffix

\* The versions a call can expect, and the paths the file system tracks: the
\* files and directories of the manifests, the marker, and the relative
\* paths that the version strings name.
Versions == {V1, V12}
Paths == {PM, PV, PO, DA, DB, MK, V1, V12}

\* sub in s (Python's str.__contains__).
Contains(sub, s) ==
    \E i \in 0..(Len(s) - Len(sub)) : SubSeq(s, i + 1, i + Len(sub)) = sub

SetMax(S) == CHOOSE x \in S : \A y \in S : y <= x
SetMin(S) == CHOOSE x \in S : \A y \in S : x <= y

\* s.rfind(c) + 1: the 1-based position of the last c, 0 when there is none.
RFind(s, c) ==
    LET I == {i \in 1..Len(s) : s[i] = c}
    IN  IF I = {} THEN 0 ELSE SetMax(I)

RECURSIVE RStrip(_, _)
RStrip(s, c) ==
    IF s # <<>> /\ s[Len(s)] = c THEN RStrip(SubSeq(s, 1, Len(s) - 1), c) ELSE s

\* os.path.dirname (posixpath).
Dirname(p) ==
    LET head == SubSeq(p, 1, RFind(p, "/"))
    IN  IF head # <<>> /\ (\E i \in 1..Len(head) : head[i] # "/")
        THEN RStrip(head, "/")
        ELSE head

\* s.split('/').
RECURSIVE Split(_)
Split(s) ==
    LET I == {i \in 1..Len(s) : s[i] = "/"}
    IN  IF I = {} THEN <<s>>
        ELSE <<SubSeq(s, 1, SetMin(I) - 1)>>
                 \o Split(SubSeq(s, SetMin(I) + 1, Len(s)))

\* '/'.join(parts).
RECURSIVE Join(_)
Join(parts) ==
    IF parts = <<>> THEN <<>>
    ELSE IF Len(parts) = 1 THEN parts[1]
    ELSE parts[1] \o <<"/">> \o Join(Tail(parts))

\* '/'.join(file['model'].split('/')[:-1]); the faulty variant keeps the
\* last component.
MsgPathWhole(model) == Join(Split(model))
MsgPath(model) == Join(SubSeq(Split(model), 1, Len(Split(model)) - 1))

\* base_location + '/version'.
VersionFile(base) == base \o VersionSuffix

----------------------------------------------------------------------------
\* The file system: every path of Paths is absent, a directory, a file that
\* download_file wrote ("data") or a text file. The text of a data file is
\* its content chunk by chunk: "d" where it holds that chunk of the body of a
\* 200 response, "e" where bytes of the body of another response were
\* written, "0" where nothing was written (a hole, zero bytes); n is its size
\* in chunks.

Absent == [kind |-> "absent", n |-> 0, text |-> <<>>]
Dir == [kind |-> "dir", n |-> 0, text |-> <<>>]
Body(t) == [kind |-> "data", n |-> Len(t), text |-> t]
Data(k) == Body([i \in 1..k |-> "d"])
Text(t) == [kind |-> "text", n |-> 0, text |-> t]

\* f.write of one chunk at the writer's own offset off (in chunks) into a file
\* that holds t: the chunk replaces what is there, and a write past the end
\* leaves a hole before it.
WriteAt(t, off, mark) ==
    [i \in 1..(IF Len(t) > off THEN Len(t) ELSE off + 1) |->
        IF i = off + 1 THEN mark ELSE IF i <= Len(t) THEN t[i] ELSE "0"]

\* os.path.exists, os.path.isfile.
exists(f, path) == path \in DOMAIN f /\ f[path].kind # "absent"
isfile(f, path) ==
    path \in DOMAIN f /\ f[path].kind \in {"data", "text"}

\* path lies below directory d.
Under(d, path) ==
    /\ Len(path) > Len(d)
    /\ SubSeq(path, 1, Len(d) + 1) = d \o <<"/">>

\* os.makedirs(d, exist_ok = True).
MakeDirs(f, d) ==
    [q \in DOMAIN f |-> IF (q = d \/ Under(q, d)) /\ f[q].kind = "absent"
                        THEN Dir ELSE f[q]]

\* _delete_folder(d): the directory and everything below it.
DeleteFolder(f, d) ==
    [q \in DOMAIN f |-> IF q = d \/ Under(d, q) THEN Absent ELSE f[q]]

\* The chunks r.iter_content yields: BodyChunks for an artifact, one for the
\* body of an error response, which is shorter than chunk_size.
BodyLen(resp) == IF resp = "200" THEN BodyChunks ELSE 1

\* What a chunk of the body of a response leaves in the file.
ChunkMark(resp) == IF resp = "200" THEN "d" ELSE "e"

\* A body of BodyChunks chunks of a 200 response, completely on disk.
Complete(c) == c = Data(BodyChunks)

----------------------------------------------------------------------------
\* The manifest (the dict `file`) in iteration order: its entries without the
\* "version" entry, which a call appends with the version it expects.

Entry(k, i) == [key |-> k, item |-> i]
M0 == <<>>
M1 == <<Entry(KModel, PM)>>
M2 == <<Entry(KModel, PM), Entry(KVocab, PV)>>
M3 == <<Entry(KModel, PM), Entry(KVocab, PO)>>
M4 == <<Entry(KModel, PM), Entry(KModelVersion, PV)>>
Manifests == {M0, M1, M2, M3, M4}

FileOf(m, v) == m \o <<Entry(KVersion, v)>>

HasKey(file, k) == \E i \in 1..Len(file) : file[i].key = k
Item(file, k) == file[CHOOSE i \in 1..Len(file) : file[i].key = k].item
Keys(file) == {file[i].key : i \in 1..Len(file)}

\* 'version' in key (lines 70 and 99): a substring test, true of "version"
\* and of "model_version" alike. The faulty variant skips no key.
IsVersionKeyNever(key) == FALSE
IsVersionKey(key) == Contains(KVersion, key)

\* The non-version keys of a manifest: every key but the distinguished
\* "version" key.
NonVersionKeys(file) == Keys(file) \ {KVersion}

\* check_available(file): the loop of lines 69-74 from entry i on.
RECURSIVE AvailFrom(_, _, _)
AvailFrom(file, f, i) ==
    IF i > Len(file) THEN TRUE
    ELSE IF IsVersionKey(file[i].key) THEN AvailFrom(file, f, i + 1)
    ELSE IF ~isfile(f, file[i].item) THEN FALSE
    ELSE AvailFrom(file, f, i + 1)

check_available(file, f) == AvailFrom(file, f, 1)

\* Line 105 writes at offset 0 of the file line 104 opened: text t over the
\* content c the file holds by then.
Overwrite(c, t) == t \o SubSeq(c, Len(t) + 1, Len(c))

\* Line 84: not file['version'] in fopen.read().
IsStale(expected, content) == ~Contains(expected, content)

\* Line 101: not os.path.isfile(item).
NeedsDownload(f, item) == ~isfile(f, item)

\* Line 98: the loop over file.items() has run out of entries; lines 104-105
\* follow the loop. The faulty variant runs them after the first entry.
LoopDoneAfterFirst(file, i) == i > 1
LoopDone(file, i) == i > Len(file)

\* Line 105: what is written to the marker; the faulty variant writes
\* nothing into it.
MarkerTextEmpty(file) == <<>>
MarkerText(file) == Item(file, KVersion)

\* Lines 79-80.
BaseLocation(file) == Dirname(Item(file, KModel))
VersionOf(file) == VersionFile(BaseLocation(file))

----------------------------------------------------------------------------
VARIABLES
    fs,        \* the file system
    manifest,  \* the manifest the calls of this run are about
    pc,        \* where each invocation of check_file is
    arg,       \* its arguments: the dict `file` and `validate`
    idx,       \* the position of its loop of lines 98-103 in `file`
    dl,        \* download_file's locals: response, chunks written, and
               \* whether the open file was unlinked meanwhile
    obs        \* what the current call found and did, and how it ended

vars == <<fs, manifest, pc, arg, idx, dl, obs>>

\* fs0 is the file system at the call; resumed says that the call before it
\* was for the same dict and ended in a failed download.
NewObs(f, r) ==
    [fs0 |-> f, resumed |-> r, fetched |-> {}, deleted |-> FALSE,
     marked |-> FALSE, badfetch |-> FALSE, raced |-> FALSE,
     result |-> "none", msg |-> <<>>, avail |-> TRUE]

NoArg == [file |-> <<>>, validate |-> FALSE]
NoDl ==
    [resp |-> "none", written |-> 0, buffered |-> FALSE, orphan |-> FALSE]

CurEntry(p) == arg[p].file[idx[p]]

\* The states of the cache directory a run can start from: each file of the
\* manifest absent or completely written (partly written files come from
\* failed downloads), the marker absent or holding a version, a directory
\* present when something is in it and absent when no file of the manifest
\* lies in it.
FileStates == {Absent, Data(BodyChunks)}
MarkerStates == {Absent} \cup {Text(v) : v \in Versions}
CwdStates == {Absent, Data(BodyChunks)}

MkFs(cm, cv, co, mk, da, db, c1, c12) ==
    (PM :> cm) @@ (PV :> cv) @@ (PO :> co) @@ (MK :> mk) @@ (DA :> da)
        @@ (DB :> db) @@ (V1 :> c1) @@ (V12 :> c12)

InManifest(m, path) == \E i \in 1..Len(m) : m[i].item = path

StartStates(m) ==
    { MkFs(cm, cv, co, mk, da, db, c1, c12) :
        cm \in {c \in FileStates : InManifest(m, PM) \/ c = Absent},
        cv \in {c \in FileStates : InManifest(m, PV) \/ c = Absent},
        co \in {c \in FileStates : InManifest(m, PO) \/ c = Absent},
        mk \in {c \in MarkerStates : InManifest(m, PM) \/ c = Absent},
        da \in {Absent, Dir}, db \in {Absent, Dir},
        c1 \in CwdStates, c12 \in CwdStates }

Consistent(m, f) ==
    \A d \in {DA, DB} :
        /\ (\E q \in DOMAIN f : Under(d, q) /\ exists(f, q)) => f[d] = Dir
        /\ (\A i \in 1..Len(m) : ~Under(d, m[i].item)) => f[d] = Absent

InitProcs ==
    /\ pc = [p \in Procs |-> "idle"]
    /\ arg = [p \in Procs |-> NoArg]
    /\ idx = [p \in Procs |-> 1]
    /\ dl = [p \in Procs |-> NoDl]
    /\ obs = [p \in Procs |-> NewObs(fs, FALSE)]

Init ==
    /\ manifest \in Manifests
    /\ fs \in {f \in StartStates(manifest) : Consistent(manifest, f)}
    /\ InitProcs

----------------------------------------------------------------------------
\* The end of a call: a return, or an exception that leaves check_file.
\* The locals of the call are gone.

Return(p) ==
    /\ pc' = [pc EXCEPT ![p] = "done"]
    /\ obs' = [obs EXCEPT ![p].result = "ok"]
    /\ idx' = [idx EXCEPT ![p] = 1]
    /\ dl' = [dl EXCEPT ![p] = NoDl]

Raise(p, e, bad) ==
    /\ pc' = [pc EXCEPT ![p] = "raised"]
    /\ obs' = [obs EXCEPT ![p].result = e,
                          ![p].badfetch = obs[p].badfetch \/ bad]
    /\ idx' = [idx EXCEPT ![p] = 1]
    /\ dl' = [dl EXCEPT ![p] = NoDl]

Goto(p, l) ==
    /\ pc' = [pc EXCEPT ![p] = l]
    /\ UNCHANGED <<obs, idx, dl>>

\* check_file(file, s3_file, validate) is called.
Call(p, v, val) ==
    /\ pc[p] \in {"idle", "done", "raised"}
    /\ arg' = [arg EXCEPT ![p] = [file |-> FileOf(manifest, v),
                                  validate |-> val]]
    /\ obs' = [obs EXCEPT ![p] =
                  NewObs(fs, /\ obs[p].result = "DownloadFailure"
                             /\ val
                             /\ arg[p].file = FileOf(manifest, v))]
    /\ idx' = [idx EXCEPT ![p] = 1]
    /\ dl' = [dl EXCEPT ![p] = NoDl]
    /\ pc' = [pc EXCEPT ![p] = IF val THEN "l79" ELSE "l107"]
    /\ UNCHANGED <<fs, manifest>>

\* Lines 79-82: base_location and version are computed and
\* os.path.isfile(version) is asked.
Check(p) ==
    /\ pc[p] = "l79"
    /\ LET file == arg[p].file IN
       IF ~HasKey(file, KModel) THEN Raise(p, "KeyError", FALSE)
       ELSE IF isfile(fs, VersionOf(file)) THEN Goto(p, "l83")
       ELSE Goto(p, "l98")
    /\ UNCHANGED <<fs, manifest, arg>>

\* Lines 83-84: the marker is opened, which raises when it is gone by now,
\* and read; a stale marker leads to line 86, another to the loop of line 90.
Read(p) ==
    /\ pc[p] = "l83"
    /\ LET file == arg[p].file IN
       IF ~isfile(fs, VersionOf(file))
       THEN Raise(p, "FileNotFoundError", FALSE)
       ELSE IF IsStale(Item(file, KVersion), fs[VersionOf(file)].text)
       THEN Goto(p, "l86")
       ELSE Goto(p, "l90")
    /\ UNCHANGED <<fs, manifest, arg>>

\* Lines 90-93: one turn of the loop that asks os.path.exists of every item
\* of the dict, the "version" entry too, whose item is the version string,
\* taken as a path relative to the working directory. A missing item sets
\* download and leaves the loop; when none is missing check_file returns.
Probe(p) ==
    /\ pc[p] = "l90"
    /\ IF idx[p] > Len(arg[p].file)
       THEN Return(p)
       ELSE IF ~exists(fs, CurEntry(p).item)
       THEN /\ pc' = [pc EXCEPT ![p] = "l98"]
            /\ idx' = [idx EXCEPT ![p] = 1]
            /\ UNCHANGED <<obs, dl>>
       ELSE /\ idx' = [idx EXCEPT ![p] = idx[p] + 1]
            /\ UNCHANGED <<pc, obs, dl>>
    /\ UNCHANGED <<fs, manifest, arg>>

\* Line 86: _delete_folder(base_location). A file another invocation holds
\* open for writing below it (a download, the marker) is unlinked.
Delete(p) ==
    /\ pc[p] = "l86"
    /\ LET base == BaseLocation(arg[p].file) IN
       /\ fs' = DeleteFolder(fs, base)
       /\ dl' = [q \in Procs |->
                   IF /\ q # p
                      /\ \/ pc[q] = "l39" /\ Under(base, CurEntry(q).item)
                         \/ pc[q] = "l105" /\ Under(base, VersionOf(arg[q].file))
                   THEN [dl[q] EXCEPT !.orphan = TRUE] ELSE dl[q]]
    /\ obs' = [q \in Procs |->
                 IF q = p THEN [obs[q] EXCEPT !.deleted = TRUE]
                 ELSE IF pc[q] # "idle" THEN [obs[q] EXCEPT !.raced = TRUE]
                 ELSE obs[q]]
    /\ pc' = [pc EXCEPT ![p] = "l98"]
    /\ UNCHANGED <<manifest, arg, idx>>

\* Lines 98-103: one turn of the loop over file.items(); download_file is
\* called for an entry whose file is missing.
Loop(p) ==
    /\ pc[p] = "l98"
    /\ IF LoopDone(arg[p].file, idx[p])
       THEN Goto(p, "l104")
       ELSE IF IsVersionKey(CurEntry(p).key)
       THEN /\ idx' = [idx EXCEPT ![p] = idx[p] + 1]
            /\ UNCHANGED <<pc, obs, dl>>
       ELSE IF NeedsDownload(fs, CurEntry(p).item)
       THEN /\ pc' = [pc EXCEPT ![p] = "l30"]
            /\ obs' = [obs EXCEPT ![p].fetched = @ \cup {CurEntry(p).key}]
            /\ UNCHANGED <<idx, dl>>
       ELSE /\ idx' = [idx EXCEPT ![p] = idx[p] + 1]
            /\ UNCHANGED <<pc, obs, dl>>
    /\ UNCHANGED <<fs, manifest, arg>>

\* Lines 29-36 of download_file: the request. It raises on a network error
\* and, at line 36, on a response without content-length; the status of the
\* response is not looked at.
Responses == {"200", "404"}
RequestErrors == {"neterr", "nolen"}

Request(p, r) ==
    /\ pc[p] = "l30"
    /\ IF r \in RequestErrors
       THEN Raise(p, "DownloadFailure", TRUE)
       ELSE /\ dl' = [dl EXCEPT ![p] = [resp |-> r, written |-> 0,
                                        buffered |-> FALSE,
                                        orphan |-> FALSE]]
            /\ pc' = [pc EXCEPT ![p] = "l37"]
            /\ obs' = [obs EXCEPT ![p].badfetch = @ \/ r # "200"]
            /\ UNCHANGED idx
    /\ UNCHANGED <<fs, manifest, arg>>

\* Lines 37-38: os.makedirs and open(filename, 'wb'), which leaves the file
\* empty; either can raise.
OpenOutcomes == {"ok", "mkdirfail", "openfail"}

Open(p, o) ==
    /\ pc[p] = "l37"
    /\ LET item == CurEntry(p).item
           made == MakeDirs(fs, Dirname(item))
       IN  CASE o = "ok" ->
                 /\ fs' = [made EXCEPT ![item] = Data(0)]
                 /\ Goto(p, "l39")
             [] o = "mkdirfail" ->
                 /\ fs' = fs
                 /\ Raise(p, "DownloadFailure", TRUE)
             [] o = "openfail" ->
                 /\ fs' = made
                 /\ Raise(p, "DownloadFailure", TRUE)
    /\ UNCHANGED <<manifest, arg>>

\* The end of the with block of line 38: the file is closed, which writes
\* the chunk still in the buffer of the file object at its offset in the file
\* as it is by then, unless the file was unlinked meanwhile.
Close(f, p, item) ==
    IF dl[p].buffered /\ ~dl[p].orphan
    THEN [f EXCEPT ![item] = Body(WriteAt(f[item].text, dl[p].written - 1,
                                          ChunkMark(dl[p].resp)))]
    ELSE f

\* Lines 39-45: one chunk is read and written at the offset of this file
\* object, whatever another invocation did to the file meanwhile, or reading
\* or writing raises; after the last chunk, or the exception, the file is
\* closed, and after the last chunk download_file returns to the loop.
\* f.write decides by the length of the chunk: one longer than the buffer of
\* the file object ("chunk") reaches the file at once, a shorter one
\* ("short") stays in the buffer until the file is closed. Only the last
\* chunk of a body can be shorter than chunk_size.
StreamOutcomes == {"chunk", "short", "fail"}

Stream(p, o) ==
    /\ pc[p] = "l39"
    /\ LET item == CurEntry(p).item IN
       IF dl[p].written = BodyLen(dl[p].resp)
       THEN /\ o = "chunk"
            /\ fs' = Close(fs, p, item)
            /\ pc' = [pc EXCEPT ![p] = "l98"]
            /\ idx' = [idx EXCEPT ![p] = idx[p] + 1]
            /\ dl' = [dl EXCEPT ![p] = NoDl]
            /\ UNCHANGED obs
       ELSE IF o = "chunk"
       THEN /\ dl' = [dl EXCEPT ![p].written = @ + 1]
            /\ fs' = IF dl[p].orphan THEN fs
                     ELSE [fs EXCEPT ![item] =
                              Body(WriteAt(fs[item].text, dl[p].written,
                                           ChunkMark(dl[p].resp)))]
            /\ UNCHANGED <<pc, idx, obs>>
       ELSE IF o = "short"
       THEN /\ dl[p].written + 1 = BodyLen(dl[p].resp)
            /\ dl' = [dl EXCEPT ![p].written = @ + 1, ![p].buffered = TRUE]
            /\ UNCHANGED <<fs, pc, idx, obs>>
       ELSE /\ fs' = Close(fs, p, item)
            /\ Raise(p, "DownloadFailure", TRUE)
    /\ UNCHANGED <<manifest, arg>>

\* Line 104: open(version, 'w') creates the marker or truncates it; it
\* raises when the directory is gone.
Mark(p) ==
    /\ pc[p] = "l104"
    /\ LET file == arg[p].file IN
       IF exists(fs, BaseLocation(file))
       THEN /\ fs' = [fs EXCEPT ![VersionOf(file)] = Text(<<>>)]
            /\ pc' = [pc EXCEPT ![p] = "l105"]
            /\ obs' = [obs EXCEPT ![p].marked = TRUE]
            /\ UNCHANGED <<idx, dl>>
       ELSE /\ fs' = fs
            /\ Raise(p, "FileNotFoundError", FALSE)
    /\ UNCHANGED <<manifest, arg>>

\* Line 105 and the end of the with block: the version string reaches the
\* file, unless the file was unlinked meanwhile, and check_file returns.
Write(p) ==
    /\ pc[p] = "l105"
    /\ LET file == arg[p].file IN
       fs' = IF dl[p].orphan \/ fs[VersionOf(file)].kind # "text" THEN fs
             ELSE [fs EXCEPT ![VersionOf(file)] =
                      Text(Overwrite(fs[VersionOf(file)].text,
                                     MarkerText(file)))]
    /\ Return(p)
    /\ UNCHANGED <<manifest, arg>>

\* Lines 107-111: validate = False.
Avail(p) ==
    /\ pc[p] = "l107"
    /\ LET file == arg[p].file
           a == check_available(file, fs)
       IN  IF ~a /\ ~HasKey(file, KModel)
           THEN /\ pc' = [pc EXCEPT ![p] = "raised"]
                /\ obs' = [obs EXCEPT ![p].avail = a,
                                      ![p].result = "KeyError"]
           ELSE IF ~a
           THEN /\ pc' = [pc EXCEPT ![p] = "raised"]
                /\ obs' = [obs EXCEPT ![p].avail = a,
                                      ![p].result = "CacheUnavailable",
                                      ![p].msg = MsgPath(Item(file, KModel))]
           ELSE /\ pc' = [pc EXCEPT ![p] = "done"]
                /\ obs' = [obs EXCEPT ![p].avail = a, ![p].result = "ok"]
    /\ UNCHANGED <<fs, manifest, arg, idx, dl>>

Step(p) ==
    \/ \E v \in Versions, val \in BOOLEAN : Call(p, v, val)
    \/ Check(p)
    \/ Read(p)
    \/ Probe(p)
    \/ Delete(p)
    \/ Loop(p)
    \/ \E r \in Responses \cup RequestErrors : Request(p, r)
    \/ \E o \in OpenOutcomes : Open(p, o)
    \/ \E o \in StreamOutcomes : Stream(p, o)
    \/ Mark(p)
    \/ Write(p)
    \/ Avail(p)

\* One process calls check_file again and again, on any cache state.
Next == Step(1)
Spec == Init /\ [][Next]_vars

\* The same, starting from an empty cache.
InitEmpty ==
    /\ manifest \in Manifests
    /\ fs \in {f \in StartStates(manifest) :
                 \A q \in {PM, PV, PO, MK, DA, DB} : f[q] = Absent}
    /\ InitProcs

SpecEmpty == InitEmpty /\ [][Next]_vars

\* Two processes each call check_file once on a cache that an earlier run
\* for version "1" left complete.
InitConc ==
    /\ manifest = M2
    /\ fs = MkFs(Data(BodyChunks), Data(BodyChunks), Absent, Text(V1), Dir,
                 Absent, Absent, Absent)
    /\ InitProcs

StepOnce(p) ==
    \/ \E v \in Versions, val \in BOOLEAN : pc[p] = "idle" /\ Call(p, v, val)
    \/ Check(p)
    \/ Read(p)
    \/ Probe(p)
    \/ Delete(p)
    \/ Loop(p)
    \/ \E r \in Responses \cup RequestErrors : Request(p, r)
    \/ \E o \in OpenOutcomes : Open(p, o)
    \/ \E o \in StreamOutcomes : Stream(p, o)
    \/ Mark(p)
    \/ Write(p)
    \/ Avail(p)

NextConc == \E p \in Procs : StepOnce(p)
SpecConc == InitConc /\ [][NextConc]_vars

----------------------------------------------------------------------------
\* What the claims speak of.

Ended(p) == pc[p] \in {"done", "raised"}
HasModel(p) == HasKey(arg[p].file, KModel)
Expected(p) == Item(arg[p].file, KVersion)
\* The entries of the non-version keys, and the entries that the loops of
\* lines 69-74 and 98-103 do not skip: those whose key does not contain
\* "version".
NonVersion(file) == {i \in 1..Len(file) : file[i].key # KVersion}
NotNamedVersion(file) ==
    {i \in 1..Len(file) : ~Contains(KVersion, file[i].key)}

MarkerMatches(f, file) ==
    /\ f[VersionOf(file)].kind = "text"
    /\ Contains(Item(file, KVersion), f[VersionOf(file)].text)
MarkerStale(f, file) ==
    /\ f[VersionOf(file)].kind = "text"
    /\ ~Contains(Item(file, KVersion), f[VersionOf(file)].text)
MarkerAbsent(f, file) == f[VersionOf(file)].kind = "absent"
AllPresent(f, file) ==
    \A i \in NonVersion(file) : f[file[i].item].kind = "data"
IncompleteKeys(f, file) ==
    {file[i].key : i \in {j \in NonVersion(file) : ~Complete(f[file[j].item])}}

\* C1: a validating call that finds the marker containing the expected
\* version and every non-version file on disk makes no fetch and changes
\* nothing on disk; the marker is not rewritten.
C1_ValidCacheUntouched ==
    \A p \in Procs :
        (/\ pc[p] # "idle" /\ arg[p].validate /\ HasModel(p)
         /\ MarkerMatches(obs[p].fs0, arg[p].file)
         /\ AllPresent(obs[p].fs0, arg[p].file))
        => /\ obs[p].fetched = {}
           /\ ~obs[p].marked /\ ~obs[p].deleted
           /\ fs = obs[p].fs0

\* C2: a validating call that finds a stale marker deletes the cache
\* directory before its first fetch and fetches every non-version file.
C2_StaleRefetchesAll ==
    \A p \in Procs :
        (/\ pc[p] # "idle" /\ arg[p].validate /\ HasModel(p)
         /\ MarkerStale(obs[p].fs0, arg[p].file))
        => /\ obs[p].fetched # {} => obs[p].deleted
           /\ pc[p] = "done" =>
                /\ obs[p].deleted
                /\ obs[p].fetched = NonVersionKeys(arg[p].file)

\* C3 as stated: after a validating call that returned, the marker holds
\* exactly the expected version.
C3_MarkerExact ==
    \A p \in Procs :
        (pc[p] = "done" /\ arg[p].validate)
        => fs[VersionOf(arg[p].file)] = Text(Expected(p))

\* C3, amended: after a validating call that returned, the marker exists and
\* contains the expected version; it differs from it only when the call
\* found the marker containing the version and every item of the manifest,
\* the path named by the version string too, existing, and wrote nothing.
C3_MarkerContains ==
    \A p \in Procs :
        (pc[p] = "done" /\ arg[p].validate)
        => /\ MarkerMatches(fs, arg[p].file)
           /\ obs[p].marked => fs[VersionOf(arg[p].file)] = Text(Expected(p))
           /\ fs[VersionOf(arg[p].file)] # Text(Expected(p)) =>
                /\ fs = obs[p].fs0
                /\ \A i \in 1..Len(arg[p].file) :
                      exists(fs, arg[p].file[i].item)

C3_Witness ==
    \E p \in Procs :
        /\ pc[p] = "done" /\ arg[p].validate /\ obs[p].marked
        /\ MarkerMatches(obs[p].fs0, arg[p].file)
        /\ obs[p].fs0[VersionOf(arg[p].file)] # Text(Expected(p))
        /\ fs[VersionOf(arg[p].file)] = Text(Expected(p))

\* C4: a validating call in which a fetch failed (a network error, a response
\* other than 200, a disk error) does not return normally and does not write
\* the marker.
C4_FailedFetchNoMarker ==
    \A p \in Procs :
        (pc[p] # "idle" /\ arg[p].validate /\ obs[p].badfetch)
        => pc[p] # "done" /\ ~obs[p].marked

\* C5: the validating call after one that failed in a download, for the same
\* manifest and with every fetch succeeding, fetches exactly the files the
\* failed call left incomplete and ends with every file complete and the
\* marker holding the expected version.
C5_ResumeAfterFailure ==
    \A p \in Procs :
        (/\ pc[p] = "done" /\ arg[p].validate /\ ~obs[p].badfetch
         /\ obs[p].resumed)
        => /\ obs[p].fetched = IncompleteKeys(obs[p].fs0, arg[p].file)
           /\ IncompleteKeys(fs, arg[p].file) = {}
           /\ fs[VersionOf(arg[p].file)] = Text(Expected(p))

\* C6: a validating call that finds no marker fetches every non-version
\* key, present on disk or not, and writes the marker.
C6_NoMarkerFetchesAll ==
    \A p \in Procs :
        (/\ pc[p] = "done" /\ arg[p].validate /\ HasModel(p)
         /\ MarkerAbsent(obs[p].fs0, arg[p].file))
        => /\ obs[p].fetched = NonVersionKeys(arg[p].file)
           /\ obs[p].marked

\* C7: a call with validate = False raises CacheUnavailable, naming the
\* directory of the "model" path, exactly when check_available of the
\* manifest is false; either way it fetches, deletes and writes nothing.
C7_NoValidate ==
    \A p \in Procs :
        (pc[p] # "idle" /\ ~arg[p].validate /\ HasModel(p))
        => /\ obs[p].fetched = {} /\ ~obs[p].deleted /\ ~obs[p].marked
           /\ fs = obs[p].fs0
           /\ Ended(p) =>
                /\ obs[p].result = "CacheUnavailable"
                       <=> ~check_available(arg[p].file, obs[p].fs0)
                /\ obs[p].result \in {"ok", "CacheUnavailable"}
                /\ obs[p].result = "CacheUnavailable"
                       => obs[p].msg = Dirname(Item(arg[p].file, KModel))

C7_Witness ==
    \E p \in Procs :
        /\ pc[p] = "raised" /\ ~arg[p].validate
        /\ obs[p].result = "CacheUnavailable"
        /\ MarkerMatches(fs, arg[p].file)
        /\ obs[p].msg = DA

\* C8 as stated: check_available is false exactly when a non-version file
\* of the manifest is not on disk, true for a manifest without non-version
\* keys, whether or not a path named by the version string exists, and it
\* changes nothing on disk.
C8_CheckAvailable ==
    \A p \in Procs :
        (Ended(p) /\ ~arg[p].validate)
        => /\ obs[p].avail <=> AllPresent(obs[p].fs0, arg[p].file)
           /\ NonVersionKeys(arg[p].file) = {} => obs[p].avail
           /\ fs = obs[p].fs0

\* C8, amended: check_available is false exactly when the file of a key whose
\* name does not contain "version" is not a file on disk, true for a manifest
\* without such keys, whether or not a path named by the version string
\* exists, and it changes nothing on disk.
C8_CheckAvailableByName ==
    \A p \in Procs :
        (Ended(p) /\ ~arg[p].validate)
        => /\ obs[p].avail <=>
                \A i \in NotNamedVersion(arg[p].file) :
                    isfile(obs[p].fs0, arg[p].file[i].item)
           /\ NotNamedVersion(arg[p].file) = {} => obs[p].avail
           /\ fs = obs[p].fs0

C8_Witness ==
    \E p \in Procs :
        /\ pc[p] = "done" /\ ~arg[p].validate
        /\ NotNamedVersion(arg[p].file) # {}
        /\ obs[p].avail
        /\ ~AllPresent(fs, arg[p].file)
        /\ ~exists(fs, Expected(p))

\* C9: two validating calls on a stale cache race. In the model of two
\* processes, a call that has written the marker and returned leaves a
\* non-version file absent only when another invocation deleted the cache
\* directory meanwhile, and such a state is reached (C9_Witness).
C9_AbsentOnlyByRace ==
    \A p \in Procs :
        (/\ pc[p] = "done" /\ arg[p].validate /\ obs[p].marked
         /\ ~AllPresent(fs, arg[p].file))
        => obs[p].raced

C9_Witness ==
    \E p \in Procs : \E q \in Procs \ {p} :
        /\ arg[p].validate /\ arg[q].validate
        /\ pc[q] # "idle"
        /\ MarkerStale(obs[p].fs0, arg[p].file)
        /\ MarkerStale(obs[q].fs0, arg[q].file)
        /\ obs[q].deleted
        /\ pc[p] = "done" /\ obs[p].marked
        /\ fs[VersionOf(arg[p].file)] = Text(Expected(p))
        /\ \E i \in NonVersion(arg[p].file) :
              /\ arg[p].file[i].key \in obs[p].fetched
              /\ ~exists(fs, arg[p].file[i].item)

\* C10 as stated: from an empty cache, between the calls of one process, a
\* marker on disk means every non-version file of the manifest is on disk.
C10_MarkerImpliesFiles ==
    (/\ pc[1] \in {"idle", "done", "raised"}
     /\ HasKey(manifest, KModel)
     /\ isfile(fs, VersionFile(Dirname(Item(manifest, KModel)))))
    => \A i \in NonVersion(manifest) : isfile(fs, manifest[i].item)

\* C10, amended: from an empty cache, between the calls of one process on a
\* manifest that stores no file at the marker's path, a marker on disk means
\* that the file of every key whose name does not contain "version" is on
\* disk.
C10_MarkerImpliesNamedFiles ==
    (/\ pc[1] \in {"idle", "done", "raised"}
     /\ HasKey(manifest, KModel)
     /\ \A i \in NotNamedVersion(manifest) :
           manifest[i].item # VersionFile(Dirname(Item(manifest, KModel)))
     /\ isfile(fs, VersionFile(Dirname(Item(manifest, KModel)))))
    => \A i \in NotNamedVersion(manifest) : isfile(fs, manifest[i].item)

C10_Witness ==
    /\ pc[1] = "done" /\ obs[1].deleted /\ obs[1].marked
    /\ Cardinality(NotNamedVersion(manifest)) = 2
    /\ isfile(fs, VersionFile(Dirname(Item(manifest, KModel))))
    /\ \A i \in NotNamedVersion(manifest) : isfile(fs, manifest[i].item)

====
